---- MODULE Spec2Model ----
(***************************************************************************)
(* The example contact form of apps/nextjs/src/app/example:                *)
(*   - ContactFormSchema, the zod object schema (hook file, lines 8-12);   *)
(*   - useContactForm, the hook that owns the form (lines 14-37): a        *)
(*     @tanstack/react-form form with the schema as its only validator     *)
(*     (validators.onSubmit) plus the React state `submitted`;             *)
(*   - ContactFormView, the presentation (lines 54-154).                   *)
(*                                                                         *)
(* Strings are sequences of one-character strings, so that length and the  *)
(* email pattern are computed the way zod computes them.                   *)
(*                                                                         *)
(* The form library's handlers are modelled by what they do to the state   *)
(* the view reads (value, meta.isTouched, meta.errors) and to the state    *)
(* that decides them (the form-level error of the last pass, isSubmitting):*)
(*   field.handleChange(v)  sets the value, marks the field touched and    *)
(*                          runs the "change" validation, which finds no   *)
(*                          onChange validator and therefore drops the     *)
(*                          field's onSubmit error;                        *)
(*   field.handleBlur()     marks the field touched and runs the "blur"    *)
(*                          validation, with the same effect on errors;    *)
(*   form.handleSubmit()    marks every field touched, returns at once     *)
(*                          when the form cannot submit (an error of an    *)
(*                          earlier pass is still in the state), and       *)
(*                          otherwise validates after an await and calls   *)
(*                          onSubmit only when the pass found no issue;    *)
(*   form.reset()           restores the default values and field meta.    *)
(***************************************************************************)
EXTENDS Naturals, Sequences, FiniteSets

VARIABLES
    values,        \* form.state.values: field -> string
    isTouched,     \* field.state.meta.isTouched: field -> BOOLEAN
    errors,        \* field.state.meta.errors: field -> sequence of messages
    formError,     \* form.state.errorMap.onSubmit is set
    isSubmitting,  \* form.state.isSubmitting: handleSubmit is at its await
    submitted,     \* useState(false) of useContactForm
    lastOp         \* the handler that ran last

vars == <<values, isTouched, errors, formError, isSubmitting, submitted, lastOp>>

Fields == {"name", "email", "message"}

(***************************************************************************)
(* Bounds of the inputs.                                                   *)
(***************************************************************************)
MaxNameLen == 3
MaxEmailLen == 6
MaxMessageLen == 11

(***************************************************************************)
(* Strings.                                                                *)
(***************************************************************************)
EmptyString == <<>>

\* c repeated n times.
RECURSIVE Rep(_, _)
Rep(c, n) == IF n = 0 THEN <<>> ELSE <<c>> \o Rep(c, n - 1)

\* Every string over chars of length at most n.
RECURSIVE StringsUpTo(_, _)
StringsUpTo(chars, n) ==
    IF n = 0 THEN {<<>>}
    ELSE LET S == StringsUpTo(chars, n - 1)
         IN  S \cup {Append(s, c) : s \in S, c \in chars}

Letters == {"a"}
Digits == {"1"}
Whitespace == {" "}

\* String.prototype.trim, which the schema does not call: used to state what
\* trimming would change.
RECURSIVE TrimStart(_)
TrimStart(s) ==
    IF s # <<>> /\ Head(s) \in Whitespace THEN TrimStart(Tail(s)) ELSE s

RECURSIVE TrimEnd(_)
TrimEnd(s) ==
    IF s # <<>> /\ s[Len(s)] \in Whitespace
    THEN TrimEnd(SubSeq(s, 1, Len(s) - 1))
    ELSE s

Trim(s) == TrimEnd(TrimStart(s))

(***************************************************************************)
(* ContactFormSchema.                                                      *)
(***************************************************************************)
NameRequired == "Name is required"
InvalidEmail == "Invalid email address"
MessageTooShort == "Message must be at least 10 characters"

MinNameLen == 1
MinMessageLen == 10

\* z.string().min(n, msg): the check is input.length >= n, no trimming.
StringMin(s, n, msg) == IF Len(s) >= n THEN <<>> ELSE <<msg>>

\* zod's email pattern:
\*   ^(?!\.)(?!.*\.\.)([A-Za-z0-9_'+\-\.]*)[A-Za-z0-9_+-]@
\*    ([A-Za-z0-9][A-Za-z0-9\-]*\.)+[A-Za-z]{2,}$
AlphaNum == Letters \cup Digits
LocalLastChars == AlphaNum \cup {"_", "+", "-"}
LocalChars == LocalLastChars \cup {"'", "."}
LabelChars == AlphaNum \cup {"-"}

\* ([A-Za-z0-9_'+\-\.]*)[A-Za-z0-9_+-]
LocalPartOk(l) ==
    /\ Len(l) >= 1
    /\ \A k \in 1..Len(l) : l[k] \in LocalChars
    /\ l[Len(l)] \in LocalLastChars

\* ([A-Za-z0-9][A-Za-z0-9\-]*\.)+ : one or more labels, each closed by a dot
LabelsOk(x) ==
    /\ Len(x) >= 2
    /\ x[Len(x)] = "."
    /\ \A k \in 1..Len(x) :
         /\ x[k] \in LabelChars \cup {"."}
         /\ (k = 1 \/ x[k - 1] = ".") => x[k] \in AlphaNum

\* [A-Za-z]{2,}
TldOk(t) == Len(t) >= 2 /\ \A k \in 1..Len(t) : t[k] \in Letters

DomainOk(d) ==
    \E k \in 1..Len(d) :
        /\ LabelsOk(SubSeq(d, 1, k))
        /\ TldOk(SubSeq(d, k + 1, Len(d)))

EmailRegex(s) ==
    /\ s # <<>> => s[1] # "."
    /\ \A k \in 1..(Len(s) - 1) : ~(s[k] = "." /\ s[k + 1] = ".")
    /\ \E i \in 1..Len(s) :
         /\ s[i] = "@"
         /\ LocalPartOk(SubSeq(s, 1, i - 1))
         /\ DomainOk(SubSeq(s, i + 1, Len(s)))

\* z.string() with the min(1) left out.
NameCheckOptional(s) == <<>>

NameCheck(s) == StringMin(s, MinNameLen, NameRequired)

\* An email test that only looks for an "@" after a first character.
EmailCheckAtOnly(s) ==
    IF \E i \in 2..Len(s) : s[i] = "@" THEN <<>> ELSE <<InvalidEmail>>

EmailCheck(s) == IF EmailRegex(s) THEN <<>> ELSE <<InvalidEmail>>

\* A message rule made of two checks, both of which report on the empty string.
MessageCheckRequiredToo(s) ==
    IF Len(s) = 0 THEN <<"Message is required", MessageTooShort>>
    ELSE StringMin(s, MinMessageLen, MessageTooShort)

\* z.string().trim().min(10, ...)
MessageCheckTrimmed(s) == StringMin(Trim(s), MinMessageLen, MessageTooShort)

MessageCheck(s) == StringMin(s, MinMessageLen, MessageTooShort)

\* A schema that stops at the first field with an issue and reports no issue
\* for the fields after it.
ContactFormSchemaFirstIssueOnly(v) ==
    [name |-> NameCheck(v.name),
     email |-> IF NameCheck(v.name) = <<>> THEN EmailCheck(v.email) ELSE <<>>,
     message |-> IF NameCheck(v.name) = <<>> /\ EmailCheck(v.email) = <<>>
                 THEN MessageCheck(v.message) ELSE <<>>]

\* z.object({...}) run on a record: the issues of each key, no key skipped.
ContactFormSchema(v) ==
    [name |-> NameCheck(v.name),
     email |-> EmailCheck(v.email),
     message |-> MessageCheck(v.message)]

NoIssues == [f \in Fields |-> <<>>]

(***************************************************************************)
(* The values the handlers are given.                                      *)
(***************************************************************************)
AtDomain == <<"@", "a", ".", "a", "a">>

\* What a user types into an input of the form: blank and non-blank strings
\* on both sides of each length rule, and strings around the email pattern.
\* Rep("a", MinMessageLen - 5) \o AtDomain passes all three rules.
FormInputs ==
    {Rep(c, n) : c \in {"a", " "},
                 n \in {0, MinNameLen, MinMessageLen - 1, MinMessageLen}}
    \cup {Rep("a", n) \o AtDomain : n \in {0, 1, MinMessageLen - 5}}

NameChars == {"a", " "}
EmailChars == {"a", "1", "@", ".", " "}
MessageChars == {"a", " "}

GoodValue == Rep("a", MinMessageLen - 5) \o AtDomain
OtherValues == {EmptyString, GoodValue}

\* The records the schema is run on: one field ranges over every string of
\* its bound, the other two over a failing and a passing value.
SchemaInput(v) ==
    \/ \E n \in StringsUpTo(NameChars, MaxNameLen), e, m \in OtherValues :
          v = [name |-> n, email |-> e, message |-> m]
    \/ \E e \in StringsUpTo(EmailChars, MaxEmailLen), n, m \in OtherValues :
          v = [name |-> n, email |-> e, message |-> m]
    \/ \E m \in StringsUpTo(MessageChars, MaxMessageLen), n, e \in OtherValues :
          v = [name |-> n, email |-> e, message |-> m]

\* Default values that start the name field with a character in it.
defaultValuesPrefilled == [f \in Fields |-> IF f = "name" THEN <<"a">> ELSE EmptyString]

(***************************************************************************)
(* useContactForm.                                                         *)
(***************************************************************************)
defaultValues == [f \in Fields |-> EmptyString]

Init ==
    /\ values = defaultValues
    /\ isTouched = [f \in Fields |-> FALSE]
    /\ errors = NoIssues
    /\ formError = FALSE
    /\ isSubmitting = FALSE
    /\ submitted = FALSE
    /\ lastOp = "create"

\* field.state.meta.isValid
isValid(f) == errors[f] = <<>>

\* form.state.canSubmit at the place handleSubmit reads it: the attempt has
\* been counted, so what is left is "not submitting and no error in the state".
canSubmit == ~isSubmitting /\ ~formError /\ \A f \in Fields : isValid(f)

(***************************************************************************)
(* ContactFormView.                                                        *)
(***************************************************************************)
\* if (submitted) return <the confirmation and "Send another">
SuccessViewShown == submitted

\* The view without its early return.
FieldViewAlwaysShown == TRUE

\* otherwise the <form> with the three inputs and Submit
FieldViewShown == ~submitted

\* isInvalid with the negation of isValid dropped.
isInvalidNegationDropped(f) == isTouched[f] /\ isValid(f)

\* const isInvalid = field.state.meta.isTouched && !field.state.meta.isValid
isInvalid(f) == isTouched[f] /\ ~isValid(f)

\* A view that shows a field's messages only while the form as a whole is
\* marked invalid, which is no part of the state the view is handed.
RenderedErrorsWhileFormInvalid(f) ==
    IF FieldViewShown /\ isInvalid(f) /\ formError THEN errors[f] ELSE <<>>

\* {isInvalid && <FieldError errors={field.state.meta.errors} />}
RenderedErrors(f) ==
    IF FieldViewShown /\ isInvalid(f) THEN errors[f] ELSE <<>>

\* value={field.state.value}
RenderedValue(f) == IF FieldViewShown THEN values[f] ELSE EmptyString

\* Inputs that stay editable behind the success view.
InputsAvailableAfterSubmit == ~isSubmitting

\* The handlers an event can reach in what is rendered.
InputsAvailable == FieldViewShown /\ ~isSubmitting
SubmitAvailable == FieldViewShown /\ ~isSubmitting
ResetAvailable == SuccessViewShown /\ ~isSubmitting

\* A handleChange that drops the submit errors of every field, not only of
\* the field that changed.
SetFieldClearsAllErrors(f, v) ==
    /\ InputsAvailable
    /\ values' = [values EXCEPT ![f] = v]
    /\ isTouched' = [isTouched EXCEPT ![f] = TRUE]
    /\ errors' = NoIssues
    /\ formError' = FALSE
    /\ lastOp' = "setField"
    /\ UNCHANGED <<isSubmitting, submitted>>

\* A handleChange that stores the value and leaves the errors of the last
\* validation pass in place.
SetFieldKeepsErrors(f, v) ==
    /\ InputsAvailable
    /\ values' = [values EXCEPT ![f] = v]
    /\ isTouched' = [isTouched EXCEPT ![f] = TRUE]
    /\ lastOp' = "setField"
    /\ UNCHANGED <<errors, formError, isSubmitting, submitted>>

\* A handleChange that drops the changed field's error and leaves the form
\* level error of the last validation pass in place.
SetFieldKeepsFormError(f, v) ==
    /\ InputsAvailable
    /\ values' = [values EXCEPT ![f] = v]
    /\ isTouched' = [isTouched EXCEPT ![f] = TRUE]
    /\ errors' = [errors EXCEPT ![f] = <<>>]
    /\ lastOp' = "setField"
    /\ UNCHANGED <<formError, isSubmitting, submitted>>

\* A handleChange that marks the changed field untouched again.
SetFieldResetsTouched(f, v) ==
    /\ InputsAvailable
    /\ values' = [values EXCEPT ![f] = v]
    /\ isTouched' = [isTouched EXCEPT ![f] = FALSE]
    /\ errors' = [errors EXCEPT ![f] = <<>>]
    /\ formError' = FALSE
    /\ lastOp' = "setField"
    /\ UNCHANGED <<isSubmitting, submitted>>

(***************************************************************************)
(* The handlers.                                                           *)
(***************************************************************************)
\* onChange={(e) => field.handleChange(e.target.value)}
SetField(f, v) ==
    /\ InputsAvailable
    /\ values' = [values EXCEPT ![f] = v]
    /\ isTouched' = [isTouched EXCEPT ![f] = TRUE]
    /\ errors' = [errors EXCEPT ![f] = <<>>]
    /\ formError' = FALSE
    /\ lastOp' = "setField"
    /\ UNCHANGED <<isSubmitting, submitted>>

\* A handleBlur that marks the whole form touched.
BlurFieldTouchesAll(f) ==
    /\ InputsAvailable
    /\ isTouched' = [g \in Fields |-> TRUE]
    /\ errors' = [errors EXCEPT ![f] = <<>>]
    /\ formError' = FALSE
    /\ lastOp' = "blurField"
    /\ UNCHANGED <<values, isSubmitting, submitted>>

\* onBlur={field.handleBlur}
BlurField(f) ==
    /\ InputsAvailable
    /\ isTouched' = [isTouched EXCEPT ![f] = TRUE]
    /\ errors' = [errors EXCEPT ![f] = <<>>]
    /\ formError' = FALSE
    /\ lastOp' = "blurField"
    /\ UNCHANGED <<values, isSubmitting, submitted>>

\* A submit handler that sets submitted itself, before the validation pass.
HandleSubmitEager ==
    /\ SubmitAvailable
    /\ isTouched' = [f \in Fields |-> TRUE]
    /\ isSubmitting' = canSubmit
    /\ submitted' = canSubmit
    /\ lastOp' = "submit"
    /\ UNCHANGED <<values, errors, formError>>

\* A handleSubmit that leaves the fields' isTouched as it finds it.
HandleSubmitNoTouch ==
    /\ SubmitAvailable
    /\ isSubmitting' = canSubmit
    /\ lastOp' = "submit"
    /\ UNCHANGED <<values, isTouched, errors, formError, submitted>>

\* A handleSubmit that empties the errors of the last pass before it looks
\* at canSubmit.
HandleSubmitClearsErrors ==
    /\ SubmitAvailable
    /\ isTouched' = [f \in Fields |-> TRUE]
    /\ errors' = NoIssues
    /\ formError' = FALSE
    /\ isSubmitting' = canSubmit
    /\ lastOp' = "submit"
    /\ UNCHANGED <<values, submitted>>

\* onSubmit={(event) => { event.preventDefault(); void form.handleSubmit(); }}
\* up to the first await of handleSubmit.
HandleSubmit ==
    /\ SubmitAvailable
    /\ isTouched' = [f \in Fields |-> TRUE]
    /\ isSubmitting' = canSubmit
    /\ lastOp' = "submit"
    /\ UNCHANGED <<values, errors, formError, submitted>>

\* An onSubmit that does not set submitted.
OnSubmitNoop == UNCHANGED submitted

\* onSubmit: () => { setSubmitted(true); }
OnSubmit == submitted' = TRUE

\* A form without validators.onSubmit: onSubmit is always called.
SubmitResumeUnvalidated ==
    /\ isSubmitting
    /\ OnSubmit
    /\ isSubmitting' = FALSE
    /\ UNCHANGED <<values, isTouched, errors, formError, lastOp>>

\* A validation pass that throws when the schema reports an issue, so that
\* handleSubmit ends only for values without issues.
SubmitResumeThrows ==
    /\ isSubmitting
    /\ ContactFormSchema(values) = NoIssues
    /\ errors' = NoIssues
    /\ formError' = FALSE
    /\ OnSubmit
    /\ isSubmitting' = FALSE
    /\ UNCHANGED <<values, isTouched, lastOp>>

\* An end of handleSubmit that empties the fields when the pass succeeds.
SubmitResumeClearsValues ==
    /\ isSubmitting
    /\ LET issues == ContactFormSchema(values) IN
          /\ errors' = issues
          /\ formError' = (issues # NoIssues)
          /\ IF issues = NoIssues
             THEN OnSubmit /\ values' = defaultValues
             ELSE UNCHANGED <<submitted, values>>
    /\ isSubmitting' = FALSE
    /\ UNCHANGED <<isTouched, lastOp>>

\* handleSubmit after its await: the schema runs on the current values; the
\* issues go to the fields, and onSubmit is called when there are none.
SubmitResume ==
    /\ isSubmitting
    /\ LET issues == ContactFormSchema(values) IN
         /\ errors' = issues
         /\ formError' = (issues # NoIssues)
         /\ IF issues = NoIssues THEN OnSubmit ELSE UNCHANGED submitted
    /\ isSubmitting' = FALSE
    /\ UNCHANGED <<values, isTouched, lastOp>>

\* handleReset without form.reset().
HandleResetSubmittedOnly ==
    /\ ResetAvailable
    /\ submitted' = FALSE
    /\ lastOp' = "reset"
    /\ UNCHANGED <<values, isTouched, errors, formError, isSubmitting>>

\* const handleReset = useCallback(() => { form.reset(); setSubmitted(false); })
HandleReset ==
    /\ ResetAvailable
    /\ values' = defaultValues
    /\ isTouched' = [f \in Fields |-> FALSE]
    /\ errors' = NoIssues
    /\ formError' = FALSE
    /\ isSubmitting' = FALSE
    /\ submitted' = FALSE
    /\ lastOp' = "reset"

Next ==
    \/ \E f \in Fields, v \in FormInputs : SetField(f, v)
    \/ \E f \in Fields : BlurField(f)
    \/ HandleSubmit
    \/ SubmitResume
    \/ HandleReset

Spec == Init /\ [][Next]_vars

\* A handleReset that calls setSubmitted(false) and not form.reset().
ResetCallSubmittedOnly ==
    /\ ~isSubmitting
    /\ submitted' = FALSE
    /\ lastOp' = "reset"
    /\ UNCHANGED <<values, isTouched, errors, formError, isSubmitting>>

\* A handleReset whose form.reset() restores the values and leaves the field
\* meta of the past interaction in place.
ResetCallKeepsTouched ==
    /\ ~isSubmitting
    /\ values' = defaultValues
    /\ errors' = NoIssues
    /\ formError' = FALSE
    /\ isSubmitting' = FALSE
    /\ submitted' = FALSE
    /\ lastOp' = "reset"
    /\ UNCHANGED isTouched

\* const handleReset = () => { form.reset(); setSubmitted(false); }
\* called on the object the hook returns, by a caller other than the
\* "Send another" button; nothing in it looks at the state it is called in.
\* A caller runs in a task of its own, so never inside a handleSubmit.
ResetCall ==
    /\ ~isSubmitting
    /\ values' = defaultValues
    /\ isTouched' = [f \in Fields |-> FALSE]
    /\ errors' = NoIssues
    /\ formError' = FALSE
    /\ isSubmitting' = FALSE
    /\ submitted' = FALSE
    /\ lastOp' = "reset"

\* The form driven through the view, with handleReset also called directly.
NextHook ==
    \/ Next
    \/ ResetCall

SpecHook == Init /\ [][NextHook]_vars

\* The form right after a submit that failed: some values the schema rejects,
\* every field touched, the errors of that pass on the fields and on the
\* form, submitted still false.  From there it is edited and submitted
\* again; a success ends the run, so every state follows a failed submit.
InitRetry ==
    /\ \E n, e, m \in FormInputs :
          values = [name |-> n, email |-> e, message |-> m]
    /\ ContactFormSchema(values) # NoIssues
    /\ isTouched = [f \in Fields |-> TRUE]
    /\ errors = ContactFormSchema(values)
    /\ formError = TRUE
    /\ isSubmitting = FALSE
    /\ submitted = FALSE
    /\ lastOp = "submit"

NextRetry ==
    \/ \E f \in Fields, v \in FormInputs : SetField(f, v)
    \/ \E f \in Fields : BlurField(f)
    \/ HandleSubmit
    \/ SubmitResume

SpecRetry == InitRetry /\ [][NextRetry]_vars

(***************************************************************************)
(* The schema on every record of the bounds: a form whose three inputs     *)
(* have been filled in is submitted once.                                  *)
(***************************************************************************)
InitSchema ==
    /\ SchemaInput(values)
    /\ isTouched = [f \in Fields |-> TRUE]
    /\ errors = NoIssues
    /\ formError = FALSE
    /\ isSubmitting = FALSE
    /\ submitted = FALSE
    /\ lastOp = "setField"

NextSchema ==
    \/ HandleSubmit
    \/ SubmitResume

SpecSchema == InitSchema /\ [][NextSchema]_vars

(***************************************************************************)
(* The properties.                                                         *)
(***************************************************************************)
\* The rules in the words of the specification.
NameRule(s) == Len(s) > 0
EmailRule(s) == EmailRegex(s)
MessageRule(s) == Len(s) >= 10

RulesHold(v) == NameRule(v.name) /\ EmailRule(v.email) /\ MessageRule(v.message)

ExpectedErrors(v) ==
    [name |-> IF NameRule(v.name) THEN <<>> ELSE <<"Name is required">>,
     email |-> IF EmailRule(v.email) THEN <<>> ELSE <<"Invalid email address">>,
     message |-> IF MessageRule(v.message) THEN <<>>
                 ELSE <<"Message must be at least 10 characters">>]

\* handleSubmit was the last handler and has run to its end.
SubmitDone == lastOp = "submit" /\ ~isSubmitting

\* local-part "@" domain-with-dot: one "@", something before it, and after it
\* a domain with a dot that has a character on each side.
HasEmailShape(s) ==
    \E i \in 2..Len(s) :
        /\ s[i] = "@"
        /\ \A k \in 1..Len(s) : s[k] = "@" => k = i
        /\ \E j \in (i + 2)..(Len(s) - 1) : s[j] = "."

CreationState ==
    /\ values = [f \in Fields |-> <<>>]
    /\ isTouched = [f \in Fields |-> FALSE]
    /\ errors = [f \in Fields |-> <<>>]
    /\ submitted = FALSE

\* C1: a submit of three values that satisfy their rules ends with
\* submitted = true and with no error on any field.
C1_ValidSubmitSucceeds ==
    (SubmitDone /\ RulesHold(values))
        => (submitted /\ \A f \in Fields : errors[f] = <<>>)

C1_Witness ==
    SubmitDone /\ RulesHold(values) /\ submitted /\ errors = NoIssues

\* C2: a submit with at least one value that violates its rule leaves
\* submitted = false.
C2_InvalidSubmitStaysEditing ==
    (SubmitDone /\ ~RulesHold(values)) => ~submitted

C2_Witness ==
    SubmitDone /\ ~RulesHold(values) /\ ~submitted /\ errors # NoIssues

\* C3: after a failing submit every field whose value violates its rule
\* carries its message and every field whose value passes carries none.
C3_FailingSubmitValidatesAll ==
    (SubmitDone /\ ~submitted /\ ~RulesHold(values))
        => errors = ExpectedErrors(values)

\* C4 as claimed: a name of trimmed length 0, with a valid email and message,
\* gets exactly "Name is required".
C4_BlankNameRejected ==
    (SubmitDone /\ Len(Trim(values.name)) = 0
        /\ EmailRule(values.email) /\ MessageRule(values.message))
        => errors.name = <<"Name is required">>

\* C4 as amended: a name of length 0, with a valid email and message, gets
\* exactly "Name is required"; the length is not trimmed, so a name of
\* whitespace only gets no error.
C4_EmptyNameRejected ==
    (SubmitDone /\ EmailRule(values.email) /\ MessageRule(values.message))
        => /\ Len(values.name) = 0 => errors.name = <<"Name is required">>
           /\ (Len(values.name) > 0 /\ Len(Trim(values.name)) = 0)
                 => errors.name = <<>>

C4_Witness ==
    /\ SubmitDone
    /\ values.name = <<>>
    /\ EmailRule(values.email) /\ MessageRule(values.message)
    /\ errors.name = <<"Name is required">>
    /\ ~submitted

\* C5: an email that does not have the shape local-part "@" domain-with-dot
\* gets exactly "Invalid email address", whatever the name and the message.
C5_NonEmailShapeRejected ==
    (SubmitDone /\ ~HasEmailShape(values.email))
        => errors.email = <<"Invalid email address">>

C5_Witness ==
    /\ SubmitDone
    /\ \E i \in 2..Len(values.email) : values.email[i] = "@"
    /\ ~HasEmailShape(values.email)
    /\ errors.email = <<"Invalid email address">>
    /\ errors.name = <<>> /\ errors.message = <<>>

\* C6: a message of length less than 10, counted without trimming, gets
\* exactly "Message must be at least 10 characters"; a message of length 10
\* or more, blank or not, gets no error.
C6_ShortMessageRejected ==
    SubmitDone
        => /\ Len(values.message) < 10
                 => errors.message = <<"Message must be at least 10 characters">>
           /\ Len(values.message) >= 10 => errors.message = <<>>

C6_Witness ==
    /\ SubmitDone
    /\ Len(values.message) = 9
    /\ errors.message = <<"Message must be at least 10 characters">>

\* C7: reset, from the submitted state, gives the creation-time state, and
\* the field view is shown again with empty inputs.
C7_ResetRestoresCreationState ==
    lastOp = "reset"
        => /\ CreationState
           /\ FieldViewShown
           /\ \A f \in Fields : RenderedValue(f) = <<>>

C7_Witness == lastOp = "reset" /\ CreationState

\* C8: submitted becomes true only at the end of a submit whose validation
\* pass found no error on any of the three fields.
C8_SubmittedOnlyByValidSubmit ==
    [][(~submitted /\ submitted')
          => /\ lastOp' = "submit"
             /\ values' = values
             /\ RulesHold(values')
             /\ errors' = [f \in Fields |-> <<>>]]_vars

C8_Witness == submitted /\ lastOp = "submit" /\ RulesHold(values)

\* C9: in the field view a field's error text is rendered exactly when the
\* field is touched and its errors are not empty.
C9_ErrorShownIffTouchedAndInvalid ==
    FieldViewShown
        => \A f \in Fields :
             /\ RenderedErrors(f) # <<>> <=> (isTouched[f] /\ errors[f] # <<>>)
             /\ RenderedErrors(f) # <<>> => RenderedErrors(f) = errors[f]

C9_Witness ==
    /\ FieldViewShown
    /\ \E f \in Fields : isTouched[f] /\ RenderedErrors(f) = errors[f]
                         /\ errors[f] # <<>>
    /\ \E f \in Fields : isTouched[f] /\ RenderedErrors(f) = <<>>

\* C10: in the submitted state no input and no Submit control is available,
\* and the only step is reset, which leads back to the field view.
C10_SubmittedOnlyResets ==
    [][submitted
          => /\ SuccessViewShown /\ ~FieldViewShown
             /\ ~InputsAvailable /\ ~SubmitAvailable /\ ResetAvailable
             /\ lastOp' = "reset"
             /\ ~submitted']_vars

C10_Witness == submitted /\ SuccessViewShown /\ ResetAvailable

C12_SetFieldChangesOnlyValue ==
    [][lastOp' = "setField" =>
          /\ \E f \in Fields :
                \A g \in Fields \ {f} : values'[g] = values[g]
          /\ isTouched' = isTouched
          /\ errors' = errors
          /\ submitted' = submitted]_vars

\* C12 amended: a setField step on field f changes f's value without running
\* the schema, marks f touched and empties f's errors; the values, touched
\* flags and errors of the other two fields, and submitted, are unchanged.
C12_SetFieldChangesOneField ==
    [][lastOp' = "setField" =>
          \E f \in Fields :
             /\ \A g \in Fields \ {f} :
                   /\ values'[g] = values[g]
                   /\ isTouched'[g] = isTouched[g]
                   /\ errors'[g] = errors[g]
             /\ isTouched'[f]
             /\ errors'[f] = <<>>
             /\ submitted' = submitted
             /\ isSubmitting' = isSubmitting]_vars

C12_Witness ==
    /\ lastOp = "setField"
    /\ \E f, g \in Fields :
          /\ errors[g] # <<>>
          /\ errors[f] = <<>>
          /\ ExpectedErrors(values)[f] # <<>>
          /\ values[f] # EmptyString

\* C13 as stated: a blurField step sets touched on one field and leaves all
\* three values, all three errors sequences, the touched flags of the other
\* two fields and submitted as they were.
C13_BlurFieldChangesOnlyTouched ==
    [][lastOp' = "blurField" =>
          /\ values' = values
          /\ errors' = errors
          /\ submitted' = submitted
          /\ \E f \in Fields :
                /\ isTouched'[f]
                /\ \A g \in Fields \ {f} : isTouched'[g] = isTouched[g]]_vars

\* C13 amended: a blurField step on field f marks f touched and empties f's
\* errors; all three values, the touched flags and errors of the other two
\* fields, and submitted, are unchanged.
C13_BlurFieldChangesOneField ==
    [][lastOp' = "blurField" =>
          /\ values' = values
          /\ submitted' = submitted
          /\ isSubmitting' = isSubmitting
          /\ \E f \in Fields :
                /\ isTouched'[f]
                /\ errors'[f] = <<>>
                /\ \A g \in Fields \ {f} :
                      /\ isTouched'[g] = isTouched[g]
                      /\ errors'[g] = errors[g]]_vars

C13_Witness ==
    /\ lastOp = "blurField"
    /\ values = defaultValues
    /\ \E f, g \in Fields :
          /\ errors[g] # <<>>
          /\ errors[f] = <<>>
          /\ ExpectedErrors(values)[f] # <<>>

\* C14: a field carries errors only when the schema rejects the value the
\* field holds now, with exactly that rule's message; a step that changes a
\* field's value leaves that field without errors.
C14_NoStaleErrors ==
    [][\A f \in Fields :
          /\ errors'[f] # <<>> => errors'[f] = ExpectedErrors(values')[f]
          /\ values'[f] # values[f] => errors'[f] = <<>>]_vars

C14_Witness ==
    /\ lastOp = "setField"
    /\ \E f, g \in Fields :
          /\ errors[f] # <<>>
          /\ errors[f] = ExpectedErrors(values)[f]
          /\ values[g] # EmptyString
          /\ errors[g] = <<>>

\* C15 as stated: a submit is one step; the state that follows the start of
\* a submit that validates is already the fully updated one, with the errors
\* of the pass written and submitted set when the pass found no issue.
C15_SubmitIsOneStep ==
    [][(~isSubmitting /\ lastOp' = "submit" /\ canSubmit) =>
          /\ ~isSubmitting'
          /\ errors' = ExpectedErrors(values)
          /\ submitted' = RulesHold(values)]_vars

\* C15 amended: a submit that validates takes two steps.  Its first step
\* marks all fields touched and changes nothing the view renders; in the
\* state between the two steps no setField, blurField, submit or reset can
\* run, and the only step from it is the end of the same submit, which
\* writes the errors of the pass and sets submitted when there is none.
C15_SubmitIsAtomicForUserEvents ==
    [][/\ (~isSubmitting /\ isSubmitting') =>
             /\ lastOp' = "submit"
             /\ \A f \in Fields :
                   /\ isTouched'[f]
                   /\ RenderedErrors(f)' = RenderedErrors(f)
                   /\ RenderedValue(f)' = RenderedValue(f)
             /\ FieldViewShown' = FieldViewShown
             /\ ~InputsAvailable' /\ ~SubmitAvailable' /\ ~ResetAvailable'
       /\ isSubmitting =>
             /\ ~isSubmitting'
             /\ lastOp' = lastOp
             /\ values' = values
             /\ isTouched' = isTouched
             /\ errors' = ExpectedErrors(values)
             /\ submitted' = RulesHold(values)]_vars

C15_Witness ==
    /\ isSubmitting
    /\ lastOp = "submit"
    /\ \A f \in Fields : isTouched[f]
    /\ ~RulesHold(values)
    /\ errors = NoIssues
    /\ ~submitted

\* C16: the form is created editing, with the three values the empty string,
\* no field touched, no errors on any field and submitted false; the view
\* shows the three inputs empty and no error.
C16_CreatedEmptyAndEditing ==
    lastOp = "create"
        => /\ CreationState
           /\ ~isSubmitting
           /\ FieldViewShown /\ ~SuccessViewShown
           /\ InputsAvailable /\ SubmitAvailable
           /\ \A f \in Fields :
                 RenderedValue(f) = <<>> /\ RenderedErrors(f) = <<>>

C16_Witness ==
    /\ lastOp = "create"
    /\ \A f \in Fields : values[f] = <<>> /\ ~isTouched[f] /\ errors[f] = <<>>
    /\ ~submitted

\* C17: handleReset can be called in every state in which no submit is
\* running, whether submitted is true or not, and the state it leaves is the
\* creation state: values empty, nothing touched, no errors, submitted false.
C17_ResetFromAnyState ==
    /\ ~isSubmitting => ENABLED ResetCall
    /\ lastOp = "reset"
          => /\ CreationState
             /\ ~formError /\ ~isSubmitting
             /\ FieldViewShown
             /\ \A f \in Fields :
                   RenderedValue(f) = <<>> /\ RenderedErrors(f) = <<>>

C17_Witness ==
    /\ lastOp = "reset"
    /\ values = [f \in Fields |-> <<>>]
    /\ \A f \in Fields : ~isTouched[f] /\ errors[f] = <<>>
    /\ ~submitted /\ ~formError

\* C18: a submit with name and email valid and message empty ends with the
\* message error alone and submitted false; and whatever the other two
\* fields hold, the errors a validation pass gives a field are those of the
\* field's own value under the field's own rule.
C18_FieldErrorsIndependent ==
    SubmitDone
        => /\ \A f \in Fields : errors[f] = ExpectedErrors(values)[f]
           /\ (NameRule(values.name) /\ EmailRule(values.email)
                  /\ values.message = <<>>)
                 => /\ errors.name = <<>>
                    /\ errors.email = <<>>
                    /\ errors.message = <<"Message must be at least 10 characters">>
                    /\ ~submitted

C18_Witness ==
    /\ SubmitDone
    /\ NameRule(values.name) /\ EmailRule(values.email)
    /\ values.message = <<>>
    /\ errors.name = <<>> /\ errors.email = <<>> /\ errors.message # <<>>
    /\ ~submitted

\* C20: a submit that has started can always run to its end; one that ends
\* without submitted leaves its failure as messages in the errors of the
\* fields and nowhere else, and leaves the form editing, with setField on
\* every field and string, blurField on every field and submit all callable.
C20_FailureIsNotFatal ==
    /\ isSubmitting => ENABLED SubmitResume
    /\ (SubmitDone /\ ~submitted)
          => /\ errors # NoIssues
             /\ \A f \in Fields :
                   errors[f] \in {<<>>, ExpectedErrors(values)[f]}
             /\ FieldViewShown /\ ~SuccessViewShown
             /\ InputsAvailable /\ SubmitAvailable
             /\ ENABLED HandleSubmit
             /\ \A f \in Fields :
                   /\ ENABLED BlurField(f)
                   /\ \A v \in FormInputs : ENABLED SetField(f, v)

C20_Witness ==
    /\ SubmitDone /\ ~submitted
    /\ \E f \in Fields : errors[f] # <<>>
    /\ FieldViewShown /\ InputsAvailable /\ SubmitAvailable

\* What the view shows, written as a function of the four components of the
\* form state alone: which screen, the text in each input, the messages under
\* each input.
ViewOf(v, t, e, sub) ==
    IF sub
    THEN [screen |-> "success",
          inputs |-> [f \in Fields |-> <<>>],
          texts |-> [f \in Fields |-> <<>>]]
    ELSE [screen |-> "fields",
          inputs |-> v,
          texts |-> [f \in Fields |-> IF t[f] /\ e[f] # <<>> THEN e[f] ELSE <<>>]]

\* C21: what is rendered is the same function of values, touched, errors and
\* submitted in every reachable state; nothing else of the state (the form
\* level error, a running submit, the handler that ran last) changes the
\* screen, the input texts or the visible messages.
C21_ViewIsFunctionOfFormState ==
    LET view == ViewOf(values, isTouched, errors, submitted) IN
    /\ SuccessViewShown = (view.screen = "success")
    /\ FieldViewShown = (view.screen = "fields")
    /\ \A f \in Fields :
          /\ RenderedValue(f) = view.inputs[f]
          /\ RenderedErrors(f) = view.texts[f]

\* The state after a failed submit and a blur of a field that had no error:
\* the same form state as right after the submit, with the form level error
\* gone.
C21_Witness ==
    /\ lastOp = "blurField"
    /\ ~formError
    /\ \E f \in Fields : RenderedErrors(f) # <<>>
    /\ \E f \in Fields : ExpectedErrors(values)[f] = <<>>
    /\ errors = ExpectedErrors(values)

\* C22: whenever submitted is true the values held by the three fields
\* satisfy their rules, and while it is true no input can change them.
C22_SubmittedValuesValid ==
    submitted
        => /\ RulesHold(values)
           /\ errors = [f \in Fields |-> <<>>]
           /\ ~InputsAvailable

C22_Witness ==
    /\ submitted
    /\ ~isSubmitting
    /\ NameRule(values.name) /\ EmailRule(values.email)
    /\ MessageRule(values.message)

\* C23: after a failed submit, once every field holds a value that satisfies
\* its rule nothing left by the failed pass stands in the way of a submit,
\* and a submit of such values ends with submitted true and no error on any
\* field.
C23_RetryAfterFixSucceeds ==
    /\ (~isSubmitting /\ ~submitted /\ RulesHold(values))
          => /\ errors = [f \in Fields |-> <<>>]
             /\ canSubmit
             /\ ENABLED HandleSubmit
    /\ (lastOp = "submit" /\ ~isSubmitting /\ RulesHold(values))
          => /\ submitted
             /\ errors = [f \in Fields |-> <<>>]

C23_Witness ==
    /\ lastOp = "submit" /\ ~isSubmitting
    /\ submitted
    /\ RulesHold(values)
    /\ \A f \in Fields : errors[f] = <<>>

\* C24: no step of a submit, its start or its end, successful or not,
\* changes the value of a field; the values change only in a setField or a
\* reset step.
C24_SubmitKeepsValues ==
    [][/\ (lastOp' = "submit" \/ isSubmitting) => values' = values
       /\ values' # values => lastOp' \in {"setField", "reset"}]_vars

C24_Witness ==
    /\ lastOp = "submit" /\ ~isSubmitting
    /\ submitted
    /\ \A f \in Fields : values[f] # <<>>

\* C25: every field has no error or exactly one, and the one is the message
\* of the field's own rule.
C25_OneOwnMessagePerField ==
    /\ errors.name \in {<<>>, <<"Name is required">>}
    /\ errors.email \in {<<>>, <<"Invalid email address">>}
    /\ errors.message \in {<<>>, <<"Message must be at least 10 characters">>}
    /\ \A f \in Fields : Len(errors[f]) <= 1 /\ Len(RenderedErrors(f)) <= 1

C25_Witness ==
    /\ errors.name = <<"Name is required">>
    /\ errors.email = <<"Invalid email address">>
    /\ errors.message = <<"Message must be at least 10 characters">>

\* C26: a field that is touched stays touched through every setField,
\* blurField and submit step; only a reset step makes a field untouched.
C26_TouchedUntilReset ==
    [][(\E f \in Fields : isTouched[f] /\ ~isTouched'[f])
          => lastOp' = "reset"]_vars

C26_Witness ==
    /\ lastOp = "setField"
    /\ \A f \in Fields : isTouched[f]
    /\ \E f \in Fields : errors[f] # <<>>
    /\ \E f \in Fields : values[f] # <<>>

\* C27: a submit that follows at once a submit that ended without submitted
\* changes nothing: same values, same errors, all fields touched, submitted
\* false, and it ends in that same step.
C27_FailingSubmitIdempotent ==
    [][(lastOp = "submit" /\ ~isSubmitting /\ ~submitted /\ lastOp' = "submit")
          => /\ values' = values
             /\ errors' = errors
             /\ isTouched' = isTouched
             /\ \A f \in Fields : isTouched'[f]
             /\ ~submitted'
             /\ ~isSubmitting'
             /\ \A f \in Fields : RenderedErrors(f)' = RenderedErrors(f)]_vars

C27_Witness ==
    /\ lastOp = "submit" /\ ~isSubmitting /\ ~submitted
    /\ formError
    /\ \E f \in Fields : errors[f] # <<>>
    /\ \A f \in Fields : isTouched[f]
    /\ ENABLED HandleSubmit

\* C28: every reset step ends in one and the same state, whatever the state
\* it starts from, and a reset that follows a reset changes nothing.
C28_ResetIdempotentHistoryFree ==
    [][lastOp' = "reset"
          => /\ values' = [f \in Fields |-> <<>>]
             /\ isTouched' = [f \in Fields |-> FALSE]
             /\ errors' = [f \in Fields |-> <<>>]
             /\ ~submitted' /\ ~formError' /\ ~isSubmitting'
             /\ lastOp = "reset" => UNCHANGED vars]_vars

C28_Witness ==
    /\ lastOp = "reset"
    /\ ENABLED ResetCall
    /\ \A f \in Fields : values[f] = <<>> /\ ~isTouched[f] /\ errors[f] = <<>>
    /\ ~submitted

====
